---- MODULE Spec2Model ----
(***************************************************************************)
(* Mix-design service (src/server.js): the computeMixDesign calculator,    *)
(* its exposure catalog, and the run log with its create / list / export   *)
(* request handlers.                                                       *)
(*                                                                         *)
(* JavaScript numbers are IEEE-754 binary64 values.  They are modelled     *)
(* bit-exactly: a finite number is sign * m * 2^e with m an unbounded      *)
(* natural (a little-endian sequence of 15-bit limbs, since the checker's  *)
(* integers are 32 bits wide), and every arithmetic operator computes the  *)
(* exact result and rounds it to 53 significant bits, ties to even.        *)
(***************************************************************************)
EXTENDS Integers, Sequences, FiniteSets, TLC

(***************************************************************************)
(* Unbounded naturals: <<l1, ..., ln>> is l1 + l2*Limb + ... , ln # 0.     *)
(***************************************************************************)
Limb == 2^15

RECURSIVE BigNorm(_)
BigNorm(a) ==
    IF a = <<>> THEN <<>>
    ELSE IF a[Len(a)] = 0 THEN BigNorm(SubSeq(a, 1, Len(a) - 1))
    ELSE a

RECURSIVE BigOfNat(_)
BigOfNat(n) == IF n = 0 THEN <<>> ELSE <<n % Limb>> \o BigOfNat(n \div Limb)

RECURSIVE BigToNat(_)
BigToNat(a) == IF a = <<>> THEN 0 ELSE a[1] + Limb * BigToNat(Tail(a))

RECURSIVE BigAddC(_, _, _)
BigAddC(a, b, c) ==
    IF a = <<>> /\ b = <<>> THEN (IF c = 0 THEN <<>> ELSE <<c>>)
    ELSE LET x == IF a = <<>> THEN 0 ELSE a[1]
             y == IF b = <<>> THEN 0 ELSE b[1]
             t == x + y + c
         IN  <<t % Limb>> \o BigAddC(IF a = <<>> THEN <<>> ELSE Tail(a),
                                     IF b = <<>> THEN <<>> ELSE Tail(b),
                                     t \div Limb)

BigAdd(a, b) == BigAddC(a, b, 0)

\* a - b - c for a >= b + c
RECURSIVE BigSubC(_, _, _)
BigSubC(a, b, c) ==
    IF a = <<>> THEN <<>>
    ELSE LET y == IF b = <<>> THEN 0 ELSE b[1]
             t == a[1] - y - c
         IN  <<IF t < 0 THEN t + Limb ELSE t>>
             \o BigSubC(Tail(a), IF b = <<>> THEN <<>> ELSE Tail(b),
                        IF t < 0 THEN 1 ELSE 0)

BigSub(a, b) == BigNorm(BigSubC(a, b, 0))

\* -1, 0, 1 as a < b, a = b, a > b (both normalised)
RECURSIVE BigCmp(_, _)
BigCmp(a, b) ==
    IF Len(a) # Len(b) THEN (IF Len(a) < Len(b) THEN -1 ELSE 1)
    ELSE IF a = <<>> THEN 0
    ELSE LET n == Len(a)
         IN  IF a[n] # b[n] THEN (IF a[n] < b[n] THEN -1 ELSE 1)
             ELSE BigCmp(SubSeq(a, 1, n - 1), SubSeq(b, 1, n - 1))

\* a * d for 0 <= d < Limb
RECURSIVE BigMulC(_, _, _)
BigMulC(a, d, c) ==
    IF a = <<>> THEN (IF c = 0 THEN <<>> ELSE <<c>>)
    ELSE LET t == a[1] * d + c
         IN  <<t % Limb>> \o BigMulC(Tail(a), d, t \div Limb)

BigMulSmall(a, d) == BigNorm(BigMulC(a, d, 0))

RECURSIVE BigMul(_, _)
BigMul(a, b) ==
    IF a = <<>> \/ b = <<>> THEN <<>>
    ELSE BigAdd(BigMulSmall(a, b[1]),
                LET r == BigMul(a, Tail(b)) IN IF r = <<>> THEN <<>> ELSE <<0>> \o r)

\* [q, r]: a = q*d + r with 0 <= r < d, for 0 < d <= Limb
RECURSIVE BigDivC(_, _, _)
BigDivC(a, d, r) ==
    IF a = <<>> THEN [q |-> <<>>, r |-> r]
    ELSE LET n == Len(a)
             t == r * Limb + a[n]
             rest == BigDivC(SubSeq(a, 1, n - 1), d, t % d)
         IN  [q |-> rest.q \o <<t \div d>>, r |-> rest.r]

BigDivSmall(a, d) ==
    LET x == BigDivC(a, d, 0) IN [q |-> BigNorm(x.q), r |-> x.r]

RECURSIVE BitsOf(_)
BitsOf(n) == IF n = 0 THEN 0 ELSE 1 + BitsOf(n \div 2)

BigBitLen(a) == IF a = <<>> THEN 0 ELSE 15 * (Len(a) - 1) + BitsOf(a[Len(a)])

RECURSIVE BigShl(_, _)
BigShl(a, k) ==
    IF k = 0 \/ a = <<>> THEN a
    ELSE IF k >= 15 THEN <<0>> \o BigShl(a, k - 15)
    ELSE BigMulSmall(a, 2^k)

\* [q, r]: q = floor(a / 2^k), r = TRUE iff a bit was shifted out
RECURSIVE BigShr(_, _)
BigShr(a, k) ==
    IF k = 0 \/ a = <<>> THEN [q |-> a, r |-> FALSE]
    ELSE IF k >= 15
         THEN LET x == BigShr(Tail(a), k - 15)
              IN  [q |-> x.q, r |-> x.r \/ a[1] # 0]
         ELSE LET x == BigDivSmall(a, 2^k)
              IN  [q |-> x.q, r |-> x.r # 0]

BigOdd(a) == a # <<>> /\ a[1] % 2 = 1

(***************************************************************************)
(* JavaScript values.  A number is NaN, +-Infinity or a finite binary64    *)
(* value, held in one of two forms:                                        *)
(*   Fin(s, m, e)  its binary expansion s * m * 2^e, with m = <<>> for     *)
(*                 zero and m of exactly 53 bits otherwise;                *)
(*   Dec(n, d)     the binary64 value nearest to n / 10^d, which is what   *)
(*                 the decimal literal reads as and what the division of   *)
(*                 the integer n by 10^d returns; String() prints it as    *)
(*                 that decimal.  n has no trailing zero after the point.  *)
(* Bin gives the binary expansion of either form; arithmetic works on it.  *)
(* Exponents stay far from the subnormal range for every input used here,  *)
(* and the sign of a zero is not kept (nothing in the program reads it).   *)
(***************************************************************************)
Undefined == [t |-> "undefined"]
Null == [t |-> "null"]
Str(s) == [t |-> "string", s |-> s]
NaN == [t |-> "number", k |-> "nan"]
Inf(s) == [t |-> "number", k |-> "inf", s |-> s]
Fin(s, m, e) == [t |-> "number", k |-> "fin", s |-> s, m |-> m, e |-> e]

RECURSIVE Dec(_, _)
Dec(n, d) ==
    IF d > 0 /\ n % 10 = 0 THEN Dec(n \div 10, d - 1)
    ELSE [t |-> "number", k |-> "dec", n |-> n, d |-> d]

FromInt(n) == Dec(n, 0)
Zero == FromInt(0)

IsNum(v) == v.t = "number"
IsNaN(v) == IsNum(v) /\ v.k = "nan"
IsInf(v) == IsNum(v) /\ v.k = "inf"
IsFin(v) == IsNum(v) /\ v.k \in {"fin", "dec"}
IsZero(v) ==
    /\ IsNum(v)
    /\ \/ v.k = "dec" /\ v.n = 0
       \/ v.k = "fin" /\ v.m = <<>>

\* q or q + 1: q is the 53 leading bits of a magnitude, half its next bit,
\* rest whether anything follows; ties go to the even neighbour
RoundUp(s, q, e, half, rest) ==
    IF ~(half /\ (rest \/ BigOdd(q))) THEN Fin(s, q, e)
    ELSE IF BigBitLen(BigAdd(q, <<1>>)) > 53
         THEN Fin(s, BigShr(BigAdd(q, <<1>>), 1).q, e + 1)
    ELSE Fin(s, BigAdd(q, <<1>>), e)

Overflow(v) == IF v.e + 53 > 1024 THEN Inf(v.s) ELSE v

RoundCut(s, x, e, sticky) ==
    Overflow(RoundUp(s, BigShr(x.q, 1).q, e, BigOdd(x.q), x.r \/ sticky))

RoundLen(s, m, e, sticky, len) ==
    IF len = 0 THEN Fin(1, <<>>, 0)
    ELSE IF len <= 53 THEN Fin(s, BigShl(m, 53 - len), e - (53 - len))
    ELSE RoundCut(s, BigShr(m, len - 54), e + len - 53, sticky)

\* The binary64 value nearest to s * (m + f) * 2^e, ties to even, where
\* 0 <= f < 1 and f # 0 iff sticky (sticky only with m of 55 bits or more).
RoundBig(s, m, e, sticky) == RoundLen(s, m, e, sticky, BigBitLen(m))

\* floor(a / 10^d) and whether anything was cut off
RECURSIVE BigDivPow10(_, _)
BigDivPow10(a, d) ==
    IF d = 0 THEN [q |-> a, r |-> FALSE]
    ELSE LET x == BigDivSmall(a, 10)
             y == BigDivPow10(x.q, d - 1)
         IN  [q |-> y.q, r |-> y.r \/ x.r # 0]

RoundQuotient(s, x, e) == RoundBig(s, x.q, e, x.r)

\* the binary64 value nearest to s * n / 10^d (n a natural as limbs)
RatioPow10(s, n, d) == RoundQuotient(s, BigDivPow10(BigShl(n, 90), d), -90)

\* the binary expansion of a number
Bin(v) ==
    IF v.k # "dec" THEN v
    ELSE IF v.n < 0 THEN RatioPow10(-1, BigOfNat(-v.n), v.d)
    ELSE RatioPow10(1, BigOfNat(v.n), v.d)

\* -a
Neg(a) ==
    IF IsNaN(a) THEN a
    ELSE IF a.k = "dec" THEN Dec(-a.n, a.d)
    ELSE [a EXCEPT !.s = -a.s]

MulBin(a, b) ==
    IF IsNaN(a) \/ IsNaN(b) THEN NaN
    ELSE IF IsInf(a) \/ IsInf(b)
         THEN (IF IsZero(a) \/ IsZero(b) THEN NaN ELSE Inf(a.s * b.s))
    ELSE RoundBig(a.s * b.s, BigMul(a.m, b.m), a.e + b.e, FALSE)

\* a * b
Mul(a, b) == MulBin(Bin(a), Bin(b))

AddAligned(a, b, x, y, e) ==
    IF a.s = b.s THEN RoundBig(a.s, BigAdd(x, y), e, FALSE)
    ELSE IF BigCmp(x, y) = 0 THEN Fin(1, <<>>, 0)
    ELSE IF BigCmp(x, y) > 0 THEN RoundBig(a.s, BigSub(x, y), e, FALSE)
    ELSE RoundBig(b.s, BigSub(y, x), e, FALSE)

AddAt(a, b, e) == AddAligned(a, b, BigShl(a.m, a.e - e), BigShl(b.m, b.e - e), e)

AddBin(a, b) ==
    IF IsNaN(a) \/ IsNaN(b) THEN NaN
    ELSE IF IsInf(a) THEN (IF IsInf(b) /\ b.s # a.s THEN NaN ELSE a)
    ELSE IF IsInf(b) THEN b
    ELSE IF IsZero(a) THEN b
    ELSE IF IsZero(b) THEN a
    ELSE AddAt(a, b, IF a.e < b.e THEN a.e ELSE b.e)

\* a + b and a - b
Add(a, b) == AddBin(Bin(a), Bin(b))
Sub(a, b) == Add(a, Neg(b))

SignOf(d) == IF IsZero(d) THEN 0 ELSE d.s

\* -1, 0, 1 as a < b, a = b, a > b, for a and b not NaN
Cmp(a, b) ==
    IF IsInf(a) /\ IsInf(b) THEN (IF a.s = b.s THEN 0 ELSE a.s)
    ELSE SignOf(Sub(a, b))

\* a <= b and a >= b; a comparison with NaN or undefined is false
LessEq(a, b) ==
    IsNum(a) /\ IsNum(b) /\ ~IsNaN(a) /\ ~IsNaN(b) /\ Cmp(a, b) <= 0
GreaterEq(a, b) == LessEq(b, a)

\* x.q holds the integer part and one more bit, x.r whether more follows
RoundHalfUp(s, x) ==
    IF BigOdd(x.q) /\ (s = 1 \/ x.r)
    THEN RoundBig(s, BigAdd(BigShr(x.q, 1).q, <<1>>), 0, FALSE)
    ELSE RoundBig(s, BigShr(x.q, 1).q, 0, FALSE)

RoundBin(a) ==
    IF ~IsFin(a) THEN a
    ELSE IF a.e >= 0 \/ IsZero(a) THEN a
    ELSE RoundHalfUp(a.s, BigShr(a.m, (-a.e) - 1))

\* Math.round: the nearest integer, a tie going towards +Infinity
MathRound(a) == RoundBin(Bin(a))

\* the integer a finite integer-valued number is
IntOfBin(a) ==
    IF a.e >= 0 THEN a.s * BigToNat(BigShl(a.m, a.e))
    ELSE a.s * BigToNat(BigShr(a.m, -a.e).q)

IntOf(a) == IF a.k = "dec" THEN a.n ELSE IntOfBin(a)

\* a / 10^d for an integer-valued a
DivPow10(a, d) == IF ~IsFin(a) THEN a ELSE Dec(IntOf(a), d)

(***************************************************************************)
(* Conversions: Number(v), !v, v || w, property keys.                      *)
(***************************************************************************)
Char(s, i) == SubSeq(s, i, i)
IsDigit(c) == \E i \in 1..10 : Char("0123456789", i) = c
DigitVal(c) == (CHOOSE i \in 1..10 : Char("0123456789", i) = c) - 1

RECURSIVE AllDigits(_)
AllDigits(s) == s = "" \/ (IsDigit(Head(s)) /\ AllDigits(Tail(s)))

RECURSIVE DigitsToNat(_, _)
DigitsToNat(s, acc) ==
    IF s = "" THEN acc ELSE DigitsToNat(Tail(s), 10 * acc + DigitVal(Head(s)))

RECURSIVE IndexOf(_, _, _)
IndexOf(s, c, i) ==
    IF i > Len(s) THEN 0 ELSE IF Char(s, i) = c THEN i ELSE IndexOf(s, c, i + 1)

\* Number(s) for a string without white space or exponent part:
\* "" is 0, [+-]Infinity, [+-]digits[.digits], anything else NaN
StringToNumber(s) ==
    LET signed == s # "" /\ Head(s) \in {"-", "+"}
        sgn == IF s # "" /\ Head(s) = "-" THEN -1 ELSE 1
        body == IF signed THEN Tail(s) ELSE s
        dot == IndexOf(body, ".", 1)
        int == IF dot = 0 THEN body ELSE SubSeq(body, 1, dot - 1)
        frac == IF dot = 0 THEN "" ELSE SubSeq(body, dot + 1, Len(body))
    IN  IF s = "" THEN Zero
        ELSE IF body = "Infinity" THEN Inf(sgn)
        ELSE IF (int \o frac) # "" /\ AllDigits(int) /\ AllDigits(frac)
             THEN Dec(sgn * DigitsToNat(int \o frac, 0), Len(frac))
        ELSE NaN

ToNumber(v) ==
    CASE v.t = "undefined" -> NaN
      [] v.t = "null" -> Zero
      [] v.t = "number" -> v
      [] v.t = "string" -> StringToNumber(v.s)
      [] v.t = "object" -> NaN

\* !v is ~Truthy(v)
Truthy(v) ==
    CASE v.t = "undefined" -> FALSE
      [] v.t = "null" -> FALSE
      [] v.t = "number" -> ~(IsNaN(v) \/ IsZero(v))
      [] v.t = "string" -> v.s # ""
      [] v.t = "object" -> TRUE

\* v || w
Or(v, w) == IF Truthy(v) THEN v ELSE w

\* the property key a value is converted to in obj[v]
ToPropertyKey(v) ==
    CASE v.t = "undefined" -> "undefined"
      [] v.t = "null" -> "null"
      [] v.t = "string" -> v.s

\* obj.p: undefined when obj has no such property
Get(obj, p) == IF p \in DOMAIN obj THEN obj[p] ELSE Undefined

(***************************************************************************)
(* The exposure catalog.                                                   *)
(***************************************************************************)
Exposure(key, label, maxWc, minCement, minGradeFck) ==
    [t |-> "object", key |-> Str(key), label |-> Str(label), maxWc |-> maxWc,
     minCement |-> FromInt(minCement), minGradeFck |-> FromInt(minGradeFck)]

EXPOSURES ==
    [mild |-> Exposure("mild", "Mild (RCC)", Dec(55, 2), 300, 20),
     moderate |-> Exposure("moderate", "Moderate (RCC)", Dec(5, 1), 300, 25),
     severe |-> Exposure("severe", "Severe (RCC)", Dec(45, 2), 320, 30),
     verySevere |-> Exposure("verySevere", "Very Severe (RCC)", Dec(45, 2), 340, 35),
     extreme |-> Exposure("extreme", "Extreme (RCC)", Dec(4, 1), 360, 40)]

\* EXPOSURES is a plain object literal, so a lookup that finds no own
\* property goes on to Object.prototype, whose members are functions and
\* objects without key, maxWc, minCement or minGradeFck.
ObjectPrototype ==
    {"constructor", "toString", "toLocaleString", "valueOf", "hasOwnProperty",
     "isPrototypeOf", "propertyIsEnumerable", "__proto__", "__defineGetter__",
     "__defineSetter__", "__lookupGetter__", "__lookupSetter__"}

Inherited(name) == [t |-> "object", inherited |-> name]

\* EXPOSURES[v]
LookupExposure(v) ==
    LET k == ToPropertyKey(v)
    IN  IF k \in DOMAIN EXPOSURES THEN EXPOSURES[k]
        ELSE IF k \in ObjectPrototype THEN Inherited(k)
        ELSE Undefined

(***************************************************************************)
(* round and computeMixDesign.                                             *)
(***************************************************************************)
RECURSIVE Pow10(_)
Pow10(d) == IF d = 0 THEN 1 ELSE 10 * Pow10(d - 1)

\* Math.pow(10, decimals) for the two precisions in use
Factor == [d \in {2, 3} |-> Bin(FromInt(Pow10(d)))]

round(value, decimals) ==
    IF value.t \in {"null", "undefined"} \/ IsNaN(value) THEN Null
    ELSE LET factor == Factor[decimals]
         IN  DivPow10(MathRound(Mul(value, factor)), decimals)

\* the coefficients <<a, b, c>> of the six regressions
Coefficients ==
    [fckMean |-> <<Bin(Dec(-35, 4)), Bin(Dec(13074, 4)), Bin(Dec(16883, 4))>>,
     w_c |-> <<Bin(Dec(9, 6)), Bin(Dec(-44, 4)), Bin(Dec(5617, 4))>>,
     water |-> <<Bin(Dec(-107, 4)), Bin(Dec(-941, 4)), Bin(Dec(19556, 2))>>,
     cement |-> <<Bin(Dec(-308, 4)), Bin(Dec(47223, 4)), Bin(Dec(29878, 2))>>,
     fineAgg |-> <<Bin(Dec(-1156, 4)), Bin(Dec(10473, 3)), Bin(Dec(48442, 2))>>,
     coarseAgg |-> <<Bin(Dec(335, 4)), Bin(Dec(-52723, 4)), Bin(Dec(12344, 1))>>]

\* a regression that leaves out its quadratic term
QuadraticLinear(k, x) == Add(Mul(k[2], x), k[3])

\* a * x * x + b * x + c, evaluated left to right
Quadratic(k, x) ==
    Add(Add(Mul(Mul(k[1], x), x), Mul(k[2], x)), k[3])

Regression(x) == [f \in DOMAIN Coefficients |-> Quadratic(Coefficients[f], x)]

\* a calculator that rounds first and compares the rounded values
MixDesignRounded(x, limits, v) ==
    IF ~Truthy(x) \/ IsNaN(x) \/ LessEq(x, Zero) THEN Null
    ELSE [t |-> "object",
          fckMean |-> round(v.fckMean, 2),
          w_c |-> round(v.w_c, 3),
          water |-> round(v.water, 2),
          cement |-> round(v.cement, 2),
          fineAgg |-> round(v.fineAgg, 2),
          coarseAgg |-> round(v.coarseAgg, 2),
          checks |-> [isWcOk |-> LessEq(round(v.w_c, 3), Get(limits, "maxWc")),
                      isCementOk |->
                          GreaterEq(round(v.cement, 2), Get(limits, "minCement")),
                      isGradeOk |-> GreaterEq(x, Get(limits, "minGradeFck")),
                      limits |-> limits]]

MixDesign(x, limits, v) ==
    IF ~Truthy(x) \/ IsNaN(x) \/ LessEq(x, Zero) THEN Null
    ELSE [t |-> "object",
          fckMean |-> round(v.fckMean, 2),
          w_c |-> round(v.w_c, 3),
          water |-> round(v.water, 2),
          cement |-> round(v.cement, 2),
          fineAgg |-> round(v.fineAgg, 2),
          coarseAgg |-> round(v.coarseAgg, 2),
          checks |-> [isWcOk |-> LessEq(v.w_c, Get(limits, "maxWc")),
                      isCementOk |-> GreaterEq(v.cement, Get(limits, "minCement")),
                      isGradeOk |-> GreaterEq(x, Get(limits, "minGradeFck")),
                      limits |-> limits]]

computeMixDesign(fck, exposureKey) ==
    MixDesign(ToNumber(fck),
              Or(LookupExposure(exposureKey), EXPOSURES.mild),
              Regression(Bin(ToNumber(fck))))

(***************************************************************************)
(* Strings: String(v), padStart, replace(/,/g, " "), join, dates.          *)
(***************************************************************************)
RECURSIVE NatToString(_)
NatToString(n) ==
    IF n < 10 THEN Char("0123456789", n + 1)
    ELSE NatToString(n \div 10) \o Char("0123456789", (n % 10) + 1)

RECURSIVE BigToString(_)
BigToString(a) ==
    IF Len(a) <= 1 THEN NatToString(BigToNat(a))
    ELSE BigToString(BigDivSmall(a, 10).q)
         \o Char("0123456789", BigDivSmall(a, 10).r + 1)

RECURSIVE padStart(_, _, _)
padStart(s, n, fill) == IF Len(s) >= n THEN s ELSE padStart(fill \o s, n, fill)

RECURSIVE ReplaceCommas(_)
ReplaceCommas(s) ==
    IF s = "" THEN ""
    ELSE (IF Head(s) = "," THEN " " ELSE Head(s)) \o ReplaceCommas(Tail(s))

RECURSIVE Join(_, _)
Join(cells, sep) ==
    IF cells = <<>> THEN ""
    ELSE IF Len(cells) = 1 THEN cells[1]
    ELSE cells[1] \o sep \o Join(Tail(cells), sep)

\* digits with a point before the last k of them
Point(digits, k) ==
    IF k = 0 THEN digits
    ELSE SubSeq(digits, 1, Len(digits) - k) \o "."
         \o SubSeq(digits, Len(digits) - k + 1, Len(digits))

Fixed(digits, k) == Point(padStart(digits, k + 1, "0"), k)

\* the integer nearest to |v| * 10^k, for a binary expansion v
RECURSIVE Scaled(_, _)
Scaled(m, k) == IF k = 0 THEN m ELSE Scaled(BigMulSmall(m, 10), k - 1)

HalfUp(x) == IF BigOdd(x.q) THEN BigAdd(BigShr(x.q, 1).q, <<1>>) ELSE BigShr(x.q, 1).q

Digits(v, k) ==
    IF v.e >= 0 THEN BigShl(Scaled(v.m, k), v.e)
    ELSE HalfUp(BigShr(Scaled(v.m, k), (-v.e) - 1))

\* the least number of decimals whose decimal reads back as v
RECURSIVE Decimals(_, _)
Decimals(v, k) ==
    IF k >= 17 \/ RatioPow10(v.s, Digits(v, k), k) = v THEN k
    ELSE Decimals(v, k + 1)

FixedOf(v, k) == Fixed(BigToString(Digits(v, k)), k)

\* String(v) of a number between 1e-6 and 1e21 in magnitude, 0, NaN, Infinity
NumberToString(v) ==
    IF IsNaN(v) THEN "NaN"
    ELSE IF IsInf(v) THEN (IF v.s = -1 THEN "-Infinity" ELSE "Infinity")
    ELSE IF IsZero(v) THEN "0"
    ELSE IF v.k = "dec"
         THEN (IF v.n < 0 THEN "-" \o Fixed(NatToString(-v.n), v.d)
               ELSE Fixed(NatToString(v.n), v.d))
    ELSE (IF v.s = -1 THEN "-" ELSE "") \o FixedOf(v, Decimals(v, 0))

\* what Array.prototype.join makes of an element
Cell(v) ==
    CASE v.t = "undefined" -> ""
      [] v.t = "null" -> ""
      [] v.t = "string" -> v.s
      [] v.t = "number" -> NumberToString(v)

BoolCell(b) == IF b THEN "true" ELSE "false"

(***************************************************************************)
(* Bounds of the model.                                                    *)
(***************************************************************************)
\* the largest strength computeMixDesign is applied to
MaxFck == 130
\* the longest run log, and the latest clock reading in milliseconds
MaxRuns == 2
MaxTime == 1
\* the longest run log when the requests carry every free-text field
MaxExportRuns == 2

(***************************************************************************)
(* Dates.  The clock now counts the milliseconds since the server started, *)
(* taken to be 2024-01-01T00:00:00.000Z; it stays below one second.        *)
(***************************************************************************)
StartDate == "2024-01-01"

\* new Date().toISOString()
toISOString(ms) ==
    StartDate \o "T00:00:00." \o padStart(NatToString(ms), 3, "0") \o "Z"

\* new Date(s) for such a string, as milliseconds since the start
DateOf(s) ==
    100 * DigitVal(Char(s, 21)) + 10 * DigitVal(Char(s, 22)) + DigitVal(Char(s, 23))

(***************************************************************************)
(* State.                                                                  *)
(***************************************************************************)
VARIABLES
    RUNS,       \* the run log
    NEXT_ID,    \* the next identifier
    now,        \* the clock
    request,    \* the request handled last
    response,   \* the response to it
    call,       \* the arguments of a direct call of computeMixDesign
    ret         \* what that call returned

vars == <<RUNS, NEXT_ID, now, request, response, call, ret>>

NoCall == [t |-> "none"]
Pending == [t |-> "pending"]

\* request bodies with the given values for each field
Bodies(fcks, exposures, names, sites, mixIds, dates, grades) ==
    [fck : fcks, exposure : exposures, projectName : names, projectSite : sites,
     mixId : mixIds, castingDate : dates, cementGrade : grades]

\* strengths the handler turns down: missing, zero, empty, not a number, negative
RejectedFcks ==
    {Undefined, Null, FromInt(0), Str(""), Str("abc"), Str("NaN"), FromInt(-5)}

Requests ==
    Bodies({FromInt(20)}, {Undefined, Str("severe"), Str("toString")},
           {Undefined}, {Undefined}, {Undefined, Str("M-7")}, {Undefined}, {Undefined})
    \cup Bodies(RejectedFcks, {Undefined},
                {Undefined}, {Undefined}, {Undefined}, {Undefined}, {Undefined})

\* requests that fill in the free-text fields, with and without commas
ExportRequests ==
    Bodies({Undefined, Str("40")}, {Str("moderate")},
           {Undefined, Str("Dam, phase 2")}, {Str("Pune, MH")},
           {Undefined, Str("M,7")}, {Undefined, Str("Jan 5, 2024")},
           {Undefined, Str("OPC, 53")})

\* computeMixDesign(fck, exposure) for the arguments the requests carry
MixDesigns ==
    [q \in {<<b.fck, b.exposure>> : b \in Requests \cup ExportRequests} |->
        computeMixDesign(q[1], q[2])]

(***************************************************************************)
(* POST /api/mix-design                                                    *)
(***************************************************************************)
\* a rejection that has already taken an identifier
RejectCounting(message) ==
    /\ response' = [status |-> 400, body |-> [success |-> FALSE, message |-> message]]
    /\ RUNS' = RUNS
    /\ NEXT_ID' = NEXT_ID + 1

Reject(message) ==
    /\ response' = [status |-> 400, body |-> [success |-> FALSE, message |-> message]]
    /\ UNCHANGED <<RUNS, NEXT_ID>>

\* the run object, built once NEXT_ID++ has made id the old and next the
\* new value of NEXT_ID
NewRun(body, result, expCfg, id, next) ==
    [id |-> id,
     timestamp |-> toISOString(now),
     project |->
        [projectName |-> Or(body.projectName, Str("")),
         projectSite |-> Or(body.projectSite, Str("")),
         mixId |-> Or(body.mixId,
                      Str("MIX-" \o padStart(NatToString(next - 1), 3, "0"))),
         castingDate |-> Or(body.castingDate, Str(SubSeq(toISOString(now), 1, 10)))],
     input |->
        [fck |-> ToNumber(body.fck),
         cementGrade |-> Or(body.cementGrade, Null),
         exposure |-> Get(expCfg, "key")],
     result |-> result]

\* a log that takes the new run at its front
StoreFirst(run) ==
    /\ RUNS' = <<run>> \o RUNS
    /\ response' = [status |-> 200, body |-> [success |-> TRUE, data |-> run]]

Store(run) ==
    /\ RUNS' = Append(RUNS, run)
    /\ response' = [status |-> 200, body |-> [success |-> TRUE, data |-> run]]

Accept(body, result) ==
    /\ NEXT_ID' = NEXT_ID + 1
    /\ Store(NewRun(body, result,
                    Or(LookupExposure(body.exposure), EXPOSURES.mild),
                    NEXT_ID, NEXT_ID + 1))

Create(body) ==
    /\ request' = [op |-> "create", body |-> body]
    /\ IF ~Truthy(body.fck) THEN Reject("fck is required")
       ELSE IF ~Truthy(MixDesigns[<<body.fck, body.exposure>>])
            THEN Reject("Invalid fck value")
       ELSE Accept(body, MixDesigns[<<body.fck, body.exposure>>])
    /\ UNCHANGED <<now, call, ret>>

(***************************************************************************)
(* GET /api/mix-design/runs                                                *)
(***************************************************************************)
\* (a, b) => new Date(b.timestamp) - new Date(a.timestamp)
Compare(a, b) == DateOf(b.timestamp) - DateOf(a.timestamp)

\* Array.prototype.sort is stable: r goes after everything not ordered after it
RECURSIVE Insert(_, _)
Insert(sorted, r) ==
    IF sorted = <<>> THEN <<r>>
    ELSE IF Compare(sorted[1], r) <= 0 THEN <<sorted[1]>> \o Insert(Tail(sorted), r)
    ELSE <<r>> \o sorted

RECURSIVE Sort(_)
Sort(runs) ==
    IF runs = <<>> THEN <<>>
    ELSE Insert(Sort(SubSeq(runs, 1, Len(runs) - 1)), runs[Len(runs)])

ListResponse(sorted) ==
    [status |-> 200,
     body |-> [success |-> TRUE, count |-> Len(sorted), data |-> sorted]]

\* a listing that sorts the log itself instead of a copy of it
ListInPlace ==
    /\ request' = [op |-> "list"]
    /\ RUNS' = Sort(RUNS)
    /\ response' = ListResponse(Sort(RUNS))
    /\ UNCHANGED <<NEXT_ID, now, call, ret>>

List ==
    /\ request' = [op |-> "list"]
    /\ response' = ListResponse(Sort(RUNS))
    /\ UNCHANGED <<RUNS, NEXT_ID, now, call, ret>>

(***************************************************************************)
(* GET /api/mix-design/export.csv                                          *)
(***************************************************************************)
Header ==
    Join(<<"id", "timestamp", "projectName", "projectSite", "mixId", "castingDate",
           "fck", "cementGrade", "exposure", "fckMean", "w_c", "water", "cement",
           "fineAgg", "coarseAgg", "isWcOk", "isCementOk", "isGradeOk">>, ",")

Row(run) ==
    Join(<<NatToString(run.id),
           run.timestamp,
           ReplaceCommas(Or(run.project.projectName, Str("")).s),
           ReplaceCommas(Or(run.project.projectSite, Str("")).s),
           ReplaceCommas(Or(run.project.mixId, Str("")).s),
           Cell(Or(run.project.castingDate, Str(""))),
           Cell(run.input.fck),
           Cell(run.input.cementGrade),
           Cell(run.input.exposure),
           Cell(run.result.fckMean),
           Cell(run.result.w_c),
           Cell(run.result.water),
           Cell(run.result.cement),
           Cell(run.result.fineAgg),
           Cell(run.result.coarseAgg),
           BoolCell(run.result.checks.isWcOk),
           BoolCell(run.result.checks.isCementOk),
           BoolCell(run.result.checks.isGradeOk)>>, ",")

Csv(runs) == Join(<<Header>> \o [k \in 1..Len(runs) |-> Row(runs[k])], "\n")

Export ==
    /\ request' = [op |-> "export"]
    /\ response' = [status |-> 200, type |-> "text/csv", body |-> Csv(RUNS)]
    /\ UNCHANGED <<RUNS, NEXT_ID, now, call, ret>>

(***************************************************************************)
(* The clock, and the service as a whole.                                  *)
(***************************************************************************)
Tick ==
    /\ now < MaxTime
    /\ now' = now + 1
    /\ UNCHANGED <<RUNS, NEXT_ID, request, response, call, ret>>

Init ==
    /\ RUNS = <<>>
    /\ NEXT_ID = 1
    /\ now = 0
    /\ request = [op |-> "none"]
    /\ response = [status |-> 0]
    /\ call = NoCall
    /\ ret = Pending

Next ==
    \/ Tick
    \/ \E body \in Requests : Len(RUNS) < MaxRuns /\ Create(body)
    \/ List
    \/ Export

Spec == Init /\ [][Next]_vars

\* the same service receiving requests that carry every free-text field
NextExport ==
    \/ \E body \in ExportRequests : Len(RUNS) < MaxExportRuns /\ Create(body)
    \/ List
    \/ Export

SpecExport == Init /\ [][NextExport]_vars

(***************************************************************************)
(* computeMixDesign called directly, on each strength and exposure key.    *)
(***************************************************************************)
Strengths ==
    {Undefined, Null, NaN, Inf(1), Inf(-1), FromInt(0), FromInt(-5),
     Str(""), Str("abc"), Str("20"), Str("Infinity")}
    \cup {FromInt(n) : n \in 1..MaxFck}

ExposureKeys ==
    {Undefined, Str(""), Str("unknownXYZ"), Str("toString"), Str("constructor"),
     Str("mild"), Str("moderate"), Str("severe"), Str("verySevere"), Str("extreme")}

InitCalc ==
    /\ RUNS = <<>>
    /\ NEXT_ID = 1
    /\ now = 0
    /\ request = [op |-> "none"]
    /\ response = [status |-> 0]
    /\ call \in [fck : Strengths, exposure : ExposureKeys]
    /\ ret = Pending

Compute ==
    /\ ret = Pending
    /\ ret' = computeMixDesign(call.fck, call.exposure)
    /\ UNCHANGED <<RUNS, NEXT_ID, now, request, response, call>>

SpecCalc == InitCalc /\ [][Compute]_vars

(***************************************************************************)
(* Properties of computeMixDesign, checked under SpecCalc.                 *)
(***************************************************************************)
Returned == ret # Pending

OutputFields == {"fckMean", "w_c", "water", "cement", "fineAgg", "coarseAgg"}

\* Number(fck) is NaN (fck missing or not numeric) or is <= 0
InvalidStrength(fck) == IsNaN(ToNumber(fck)) \/ LessEq(ToNumber(fck), Zero)

\* Number(fck) is a positive whole number
WholeStrength(fck) ==
    /\ ToNumber(fck).k = "dec"
    /\ ToNumber(fck).d = 0
    /\ ToNumber(fck).n > 0

\* The six regressions at a whole x in exact integer arithmetic:
\* ten thousand times the value, a million times it for w_c.
ExactRegression(x) ==
    [fckMean |-> (-35) * x * x + 13074 * x + 16883,
     w_c |-> 9 * x * x - 4400 * x + 561700,
     water |-> (-107) * x * x - 941 * x + 1955600,
     cement |-> (-308) * x * x + 47223 * x + 2987800,
     fineAgg |-> (-1156) * x * x + 104730 * x + 4844200,
     coarseAgg |-> 335 * x * x - 52723 * x + 12344000]

\* the number of decimals each output is rounded to
Precision == [f \in OutputFields |-> IF f = "w_c" THEN 3 ELSE 2]

\* n / unit rounded to the nearest integer, a tie going away from zero
HalfAway(n, unit) ==
    IF n >= 0 THEN (2 * n + unit) \div (2 * unit)
    ELSE -((2 * (-n) + unit) \div (2 * unit))

\* the exact regression value f at x, rounded half away from zero
ExactRounded(f, x) ==
    Dec(HalfAway(ExactRegression(x)[f], IF f = "w_c" THEN 1000 ELSE 100),
        Precision[f])

\* C1: computeMixDesign returns null exactly when Number(fck) is NaN or
\* <= 0, and for every other fck it returns an object whose six numeric
\* fields are numbers, never null, whatever the exposure identifier is.
C1_NullIffInvalid ==
    Returned =>
        /\ (ret = Null) <=> InvalidStrength(call.fck)
        /\ ~InvalidStrength(call.fck) =>
              /\ ret.t = "object"
              /\ \A f \in OutputFields : IsNum(ret[f]) /\ ~IsNaN(ret[f])

\* C2: for every valid fck the limits returned in checks.limits are the
\* catalog entry of the exposure identifier when it is one of the five
\* keys, and the mild entry for every other identifier.
C2_UnknownIsMild ==
    Returned /\ ~InvalidStrength(call.fck) =>
        /\ ret.t = "object"
        /\ ret.checks.limits =
              IF ToPropertyKey(call.exposure) \in DOMAIN EXPOSURES
              THEN EXPOSURES[ToPropertyKey(call.exposure)]
              ELSE EXPOSURES.mild

\* the three flags as the unrounded values of the code give them
UnroundedFlags(x, limits, v) ==
    [isWcOk |-> LessEq(v.w_c, Get(limits, "maxWc")),
     isCementOk |-> GreaterEq(v.cement, Get(limits, "minCement")),
     isGradeOk |-> GreaterEq(x, Get(limits, "minGradeFck"))]

\* the three flags in exact arithmetic, for a whole x and catalog limits
ExactFlags(x, limits, v) ==
    [isWcOk |-> v.w_c <= limits.maxWc.n * Pow10(6 - limits.maxWc.d),
     isCementOk |-> v.cement >= limits.minCement.n * Pow10(4),
     isGradeOk |-> x >= limits.minGradeFck.n]

FlagsOf(checks) ==
    [isWcOk |-> checks.isWcOk,
     isCementOk |-> checks.isCementOk,
     isGradeOk |-> checks.isGradeOk]

IsCatalogEntry(limits) == \E k \in DOMAIN EXPOSURES : limits = EXPOSURES[k]

\* C3: for every valid fck and every exposure identifier the result is an
\* object whose flags compare the unrounded w_c and cement, and fck, with
\* the limits the result carries (isWcOk iff w_c <= maxWc, isCementOk iff
\* cement >= minCement, isGradeOk iff fck >= minGradeFck); for a whole fck
\* and catalog limits they are the comparisons of the exact regression
\* values; fck = 20 with "moderate" gives true, true, false.
C3_FlagsFromUnrounded ==
    Returned /\ ~InvalidStrength(call.fck) =>
        /\ ret.t = "object"
        /\ FlagsOf(ret.checks) =
              UnroundedFlags(ToNumber(call.fck), ret.checks.limits,
                             Regression(Bin(ToNumber(call.fck))))
        /\ WholeStrength(call.fck) /\ IsCatalogEntry(ret.checks.limits) =>
              FlagsOf(ret.checks) =
                  ExactFlags(ToNumber(call.fck).n, ret.checks.limits,
                             ExactRegression(ToNumber(call.fck).n))
        /\ ToNumber(call.fck) = FromInt(20) /\ call.exposure = Str("moderate") =>
              FlagsOf(ret.checks) =
                  [isWcOk |-> TRUE, isCementOk |-> TRUE, isGradeOk |-> FALSE]

\* fck = 40 under "extreme": w_c is 0.4001, over the limit 0.4 it rounds to
C3_Witness ==
    /\ Returned
    /\ call = [fck |-> FromInt(40), exposure |-> Str("extreme")]
    /\ ret.w_c = ret.checks.limits.maxWc
    /\ ~ret.checks.isWcOk
    /\ ret.checks.isGradeOk

\* C4: for every whole fck > 0 each numeric output is the exact regression
\* value rounded half away from zero, to 3 decimals for w_c and to 2 for
\* the other five, negative values and exact halves included.
C4_HalfAwayFromZero ==
    Returned /\ WholeStrength(call.fck) =>
        \A f \in OutputFields : ret[f] = ExactRounded(f, ToNumber(call.fck).n)

\* C5, as stated: fck = 20 with "moderate" gives 26.43, 0.486, 189.38,
\* 379.16, 662.21 and 1140.46.
C5_StatedExample ==
    Returned /\ ToNumber(call.fck) = FromInt(20) /\ call.exposure = Str("moderate") =>
        /\ ret.fckMean = Dec(2643, 2)
        /\ ret.w_c = Dec(486, 3)
        /\ ret.water = Dec(18938, 2)
        /\ ret.cement = Dec(37916, 2)
        /\ ret.fineAgg = Dec(66221, 2)
        /\ ret.coarseAgg = Dec(114046, 2)

\* C5, amended: fck = 20 with "moderate" gives fckMean 26.44, w_c 0.477,
\* water 189.4, cement 380.91, fineAgg 647.64 and coarseAgg 1142.35.
C5_ComputedExample ==
    Returned /\ ToNumber(call.fck) = FromInt(20) /\ call.exposure = Str("moderate") =>
        /\ ret.fckMean = Dec(2644, 2)
        /\ ret.w_c = Dec(477, 3)
        /\ ret.water = Dec(18940, 2)
        /\ ret.cement = Dec(38091, 2)
        /\ ret.fineAgg = Dec(64764, 2)
        /\ ret.coarseAgg = Dec(114235, 2)

C5_Witness ==
    /\ Returned
    /\ call = [fck |-> FromInt(20), exposure |-> Str("moderate")]
    /\ ret.t = "object"
    /\ ret.checks.limits = EXPOSURES.moderate

(***************************************************************************)
(* Properties of the run log and its handlers, checked under Spec.         *)
(***************************************************************************)
\* a step in which a request has just been answered
Answered == <<request, response>>' # <<request, response>>
CreateStep == Answered /\ request'.op = "create"
ListStep == Answered /\ request'.op = "list"

\* C6: NEXT_ID is always the number of recorded runs plus one and the k-th
\* run of the log has id k; every step leaves the log as it is or is a
\* successful create that appends exactly one run, with the next id, at
\* the end, and every successful create does append the run it returns.
C6_SequentialAppendOnly ==
    /\ [](/\ NEXT_ID = Len(RUNS) + 1
          /\ \A k \in 1..Len(RUNS) : RUNS[k].id = k)
    /\ [][/\ \/ RUNS' = RUNS
             \/ /\ CreateStep
                /\ response'.status = 200
                /\ Len(RUNS') = Len(RUNS) + 1
                /\ SubSeq(RUNS', 1, Len(RUNS)) = RUNS
                /\ RUNS'[Len(RUNS')].id = Len(RUNS) + 1
          /\ CreateStep /\ response'.status = 200 =>
                RUNS' = Append(RUNS, response'.body.data)]_vars

C6_Witness ==
    /\ Len(RUNS) = 2
    /\ RUNS[2].id = 2
    /\ NEXT_ID = 3
    /\ request.op = "export"

\* C7: a create request whose fck is missing, 0, empty, not numeric, NaN or
\* negative is answered with status 400 and leaves the log and NEXT_ID as
\* they were; the run a successful create returns has the number of runs
\* recorded so far as its id, however many requests were rejected.
C7_RejectionChangesNothing ==
    /\ [][CreateStep /\ InvalidStrength(request'.body.fck) =>
              /\ response'.status = 400
              /\ RUNS' = RUNS
              /\ NEXT_ID' = NEXT_ID]_vars
    /\ [](request.op = "create" /\ response.status = 200 =>
              response.body.data.id = Len(RUNS))

C7_Witness ==
    /\ request.op = "create"
    /\ InvalidStrength(request.body.fck)
    /\ response.status = 400
    /\ Len(RUNS) = 1
    /\ NEXT_ID = 2

\* where in s the separator sep stands
Separators(s, sep) == {i \in 1..Len(s) : Char(s, i) = sep}

\* the k-th of the positions at, 0 for k = 0 and past the end after the last
Nth(at, k, len) ==
    IF k = 0 THEN 0
    ELSE IF k > Cardinality(at) THEN len + 1
    ELSE CHOOSE p \in at : Cardinality({q \in at : q <= p}) = k

SplitAt(s, at) ==
    [k \in 1..(Cardinality(at) + 1) |->
        SubSeq(s, Nth(at, k - 1, Len(s)) + 1, Nth(at, k, Len(s)) - 1)]

\* s.split(sep): the text between separators
Split(s, sep) == SplitAt(s, Separators(s, sep))

\* the rows of an exported file, after its header
RowsOf(csv) == Tail(Split(csv, "\n"))

\* C8: a listing returns every recorded run exactly once, with count the
\* number of recorded runs and each timestamp >= the next one; a listing
\* leaves the log as it is; an export has one row per run, in log order,
\* which is creation order.
C8_ListingSortsACopy ==
    /\ [](request.op = "list" =>
              /\ response.body.count = Len(RUNS)
              /\ Len(response.body.data) = Len(RUNS)
              /\ \A k \in 1..Len(RUNS) :
                    Cardinality({j \in 1..Len(RUNS) :
                                     response.body.data[j] = RUNS[k]}) = 1
              /\ \A k \in 1..(Len(RUNS) - 1) :
                    DateOf(response.body.data[k].timestamp)
                        >= DateOf(response.body.data[k + 1].timestamp))
    /\ [][ListStep => RUNS' = RUNS]_vars
    /\ [](request.op = "export" =>
              /\ Len(RowsOf(response.body)) = Len(RUNS)
              /\ \A k \in 1..Len(RUNS) :
                    /\ RUNS[k].id = k
                    /\ Split(RowsOf(response.body)[k], ",")[1] = NatToString(k))

\* a listing of two runs made at different times: the later one comes first
C8_Witness ==
    /\ request.op = "list"
    /\ response.body.count = 2
    /\ response.body.data[1].id = 2
    /\ DateOf(response.body.data[1].timestamp)
           > DateOf(response.body.data[2].timestamp)

\* C10: in every recorded run input.exposure is one of the five catalog
\* keys and is the key of the limits in result.checks.limits, and the run
\* returned for a request without mixId has "MIX-" followed by its own id
\* padded to three digits as its mixId.
C10_StoredExposureAndMixId ==
    /\ \A k \in 1..Len(RUNS) :
          /\ RUNS[k].input.exposure \in {Str(key) : key \in DOMAIN EXPOSURES}
          /\ RUNS[k].input.exposure = Get(RUNS[k].result.checks.limits, "key")
    /\ request.op = "create" /\ response.status = 200
          /\ ~Truthy(request.body.mixId) =>
              response.body.data.project.mixId =
                  Str("MIX-" \o padStart(NatToString(response.body.data.id), 3, "0"))

(***************************************************************************)
(* The exported file, checked under SpecExport.                            *)
(***************************************************************************)
\* C9: an export is the 18-column header followed by one row per recorded
\* run, and every row has exactly 18 comma-separated fields.
C9_EighteenFields ==
    request.op = "export" =>
        /\ Split(response.body, "\n")[1] = Header
        /\ Len(Split(Header, ",")) = 18
        /\ Len(RowsOf(response.body)) = Len(RUNS)
        /\ \A k \in 1..Len(RUNS) :
              Len(Split(RowsOf(response.body)[k], ",")) = 18

====
